---- MODULE Spec2Model ----
(***************************************************************************)
(* Model of package hostname1: the client adapter for systemd-hostnamed    *)
(* on the D-Bus system bus.  The adapter's own code (New, initConnection,  *)
(* Close, the getters and the setters) is translated operator by operator. *)
(* The bus library (dbus.Conn, dbus.BusObject, dbus.Variant) and the       *)
(* remote service are the environment: every result they hand back is an   *)
(* input of the action that models the call.                               *)
(*                                                                         *)
(* Every method operator returns a record                                  *)
(*    [c |-> the Conn struct after the call,                               *)
(*     trace |-> the library calls it made, in order,                      *)
(*     ret |-> its first result, err |-> its error result]                 *)
(* and the action that models the method applies the trace to the          *)
(* library's connections with Exec.                                        *)
(***************************************************************************)
EXTENDS Integers, Sequences, FiniteSets, TLC

(* ---------------------------- bounds ---------------------------------- *)
MaxNew == 1      \* calls to New in one behaviour
MaxClose == 2    \* calls to Close on one adapter

(* --------------------------- constants -------------------------------- *)
dbusInterface == "org.freedesktop.hostname1"
dbusPath == "/org/freedesktop/hostname1"

Variants == {"dbus.go", "part_000"}     \* the two source files of the package

(* ----------------------------- errors --------------------------------- *)
nil == [isNil |-> TRUE, msg |-> ""]
Err(m) == [isNil |-> FALSE, msg |-> m]

ConnectErrors == {Err("dial unix /var/run/dbus/system_bus_socket: connect: no such file or directory")}
AuthErrors == {Err("dbus: authentication failed")}
HelloErrors == {Err("org.freedesktop.DBus.Error.LimitsExceeded")}
ErrClosed == Err("dbus: connection closed by user")
CallErrors == {Err("org.freedesktop.DBus.Error.AccessDenied")}
StoreErrors == {Err("dbus.Store: type mismatch")}
CloseErrors == {Err("close unix: use of closed network connection")}

(* ------------------------ dynamically typed values -------------------- *)
Str(s) == [type |-> "string", s |-> s, i |-> 0]
Int32(i) == [type |-> "int32", s |-> "", i |-> i]
NilValue == [type |-> "<nil>", s |-> "", i |-> 0]

\* dbus.Variant: a signature and the value it wraps
MakeVariant(sig, v) == [sig |-> sig, value |-> v]
Variant_Value(v) == v.value
ZeroVariant == MakeVariant("", NilValue)
VariantsOnWire == {MakeVariant("s", Str("")), MakeVariant("s", Str("node-1")),
                   MakeVariant("i", Int32(7)), ZeroVariant}

\* a Go map: nil or a function from keys to values
NilMap == [isNil |-> TRUE, m |-> <<>>]
MakeMap(f) == [isNil |-> FALSE, m |-> f]
PropertyNames == {"Hostname", "StaticHostname"}
PropMaps == UNION {[ks -> {MakeVariant("s", Str("node-1")), MakeVariant("i", Int32(7))}]
                    : ks \in SUBSET PropertyNames}

(* ----------------------------- strconv -------------------------------- *)
Digit(d) == CASE d = 0 -> "0" [] d = 1 -> "1" [] d = 2 -> "2" [] d = 3 -> "3"
              [] d = 4 -> "4" [] d = 5 -> "5" [] d = 6 -> "6" [] d = 7 -> "7"
              [] d = 8 -> "8" [] d = 9 -> "9"
RECURSIVE Itoa(_)
Itoa(n) == IF n < 0 THEN "-" \o Itoa(-n)
           ELSE IF n < 10 THEN Digit(n)
           ELSE Itoa(n \div 10) \o Digit(n % 10)
Uids == {0, 1000}

(* ------------------------ the Conn struct ----------------------------- *)
NoObject == [conn |-> 0, dest |-> "", path |-> ""]
ZeroConn == [conn |-> 0, object |-> NoObject]          \* new(Conn)
NilPtr == [isNil |-> TRUE, conn |-> 0, object |-> NoObject]
Ptr(c) == [isNil |-> FALSE, conn |-> c.conn, object |-> c.object]

(* ------------------------- library calls ------------------------------ *)
\* one entry of a trace: which library function was called, on which
\* connection or object, with which arguments, and what it returned
LibCall(fn, conn, object, method, args, err) ==
  [fn |-> fn, conn |-> conn, object |-> object, method |-> method, args |-> args, err |-> err]
SystemBusPrivate(id, err) == LibCall("SystemBusPrivate", IF err = nil THEN id ELSE 0, NoObject, "", <<>>, err)
AuthExternal(user) == [mechanism |-> "EXTERNAL", user |-> user]
Conn_Auth(conn, methods, err) == LibCall("Auth", conn, NoObject, "", methods, err)
Conn_Hello(conn, err) == LibCall("Hello", conn, NoObject, "", <<>>, err)
Conn_Close(conn, err) == LibCall("Close", conn, NoObject, "", <<>>, err)
Conn_Object(conn, dest, path) == [conn |-> conn, dest |-> dest, path |-> path]
Object_Call(object, method, args, err) == LibCall("Call", object.conn, object, method, args, err)

\* the library's connections: what each trace entry does to them
NewLibConn == [authed |-> FALSE, hello |-> FALSE, closeCalls |-> 0, auth |-> <<>>]
Step(cs, e) ==
  CASE e.fn = "SystemBusPrivate" -> IF e.err = nil THEN Append(cs, NewLibConn) ELSE cs
    [] e.fn = "Auth" -> [cs EXCEPT ![e.conn].authed = (e.err = nil), ![e.conn].auth = e.args]
    [] e.fn = "Hello" -> [cs EXCEPT ![e.conn].hello = (e.err = nil)]
    [] e.fn = "Close" -> [cs EXCEPT ![e.conn].closeCalls = @ + 1]
    [] OTHER -> cs
RECURSIVE Exec(_, _)
Exec(cs, trace) == IF trace = <<>> THEN cs ELSE Exec(Step(cs, Head(trace)), Tail(trace))

BusCalls(trace) == SelectSeq(trace, LAMBDA e : e.fn = "Call")

(* --------------------------- construction ----------------------------- *)
\* env: what the library answers at each step, [connect, auth, hello, close]

\* variant: the Hello failure path returns without closing the connection
initConnection_leakOnHello(c, id, uidv, env) ==
  LET c1 == [c EXCEPT !.conn = IF env.connect = nil THEN id ELSE 0]
      t1 == <<SystemBusPrivate(id, env.connect)>>
      methods == <<AuthExternal(Itoa(uidv))>>
      t2 == Append(t1, Conn_Auth(c1.conn, methods, env.auth))
      t3 == Append(t2, Conn_Hello(c1.conn, env.hello))
  IN IF env.connect # nil THEN [c |-> c1, trace |-> t1, err |-> env.connect]
     ELSE IF env.auth # nil
       THEN [c |-> c1, trace |-> Append(t2, Conn_Close(c1.conn, env.close)), err |-> env.auth]
     ELSE IF env.hello # nil
       THEN [c |-> c1, trace |-> t3, err |-> env.hello]
     ELSE [c |-> [c1 EXCEPT !.object = Conn_Object(c1.conn, "org.freedesktop.hostname1", dbusPath)],
           trace |-> t3, err |-> nil]

\* variant: the result of Auth is not checked before Hello
initConnection_authUnchecked(c, id, uidv, env) ==
  LET c1 == [c EXCEPT !.conn = IF env.connect = nil THEN id ELSE 0]
      t1 == <<SystemBusPrivate(id, env.connect)>>
      methods == <<AuthExternal(Itoa(uidv))>>
      t2 == Append(t1, Conn_Auth(c1.conn, methods, env.auth))
      t3 == Append(t2, Conn_Hello(c1.conn, env.hello))
  IN IF env.connect # nil THEN [c |-> c1, trace |-> t1, err |-> env.connect]
     ELSE IF env.hello # nil
       THEN [c |-> c1, trace |-> Append(t3, Conn_Close(c1.conn, env.close)), err |-> env.hello]
     ELSE IF env.auth # nil
       THEN [c |-> c1, trace |-> Append(t3, Conn_Close(c1.conn, env.close)), err |-> env.auth]
     ELSE [c |-> [c1 EXCEPT !.object = Conn_Object(c1.conn, "org.freedesktop.hostname1", dbusPath)],
           trace |-> t3, err |-> nil]

initConnection(c, id, uidv, env) ==
  LET c1 == [c EXCEPT !.conn = IF env.connect = nil THEN id ELSE 0]
      t1 == <<SystemBusPrivate(id, env.connect)>>
      methods == <<AuthExternal(Itoa(uidv))>>
      t2 == Append(t1, Conn_Auth(c1.conn, methods, env.auth))
      t3 == Append(t2, Conn_Hello(c1.conn, env.hello))
  IN IF env.connect # nil THEN [c |-> c1, trace |-> t1, err |-> env.connect]
     ELSE IF env.auth # nil
       THEN [c |-> c1, trace |-> Append(t2, Conn_Close(c1.conn, env.close)), err |-> env.auth]
     ELSE IF env.hello # nil
       THEN [c |-> c1, trace |-> Append(t3, Conn_Close(c1.conn, env.close)), err |-> env.hello]
     ELSE [c |-> [c1 EXCEPT !.object = Conn_Object(c1.conn, "org.freedesktop.hostname1", dbusPath)],
           trace |-> t3, err |-> nil]

\* variant: New hands back c on the failure path too
New_returnsBoth(id, uidv, env) ==
  LET r == initConnection(ZeroConn, id, uidv, env)
  IN [c |-> r.c, trace |-> r.trace, ret |-> Ptr(r.c), err |-> r.err]

New(id, uidv, env) ==
  LET r == initConnection(ZeroConn, id, uidv, env)
  IN IF r.err # nil THEN [c |-> r.c, trace |-> r.trace, ret |-> NilPtr, err |-> r.err]
     ELSE [c |-> r.c, trace |-> r.trace, ret |-> Ptr(r.c), err |-> nil]

(* ------------------------------ Close --------------------------------- *)
\* variant: Close forgets the connection without closing it
Close_noRelease(c, reply) ==
  [c |-> c, trace |-> <<>>, ret |-> nil, err |-> nil]

Close(c, reply) ==
  [c |-> c, trace |-> <<Conn_Close(c.conn, reply.err)>>, ret |-> reply.err, err |-> reply.err]

(* ----------------------------- getters -------------------------------- *)
\* reply: [err |-> what Call(...).Store(...) returns, variant, props |-> what it stored]
\* variant: the variants are copied into the result without Value()
GetProperties_noUnwrap(c, reply) ==
  LET t == <<Object_Call(c.object, "org.freedesktop.DBus.Properties.GetAll", <<dbusInterface>>, reply.err)>>
      props == reply.props
  IN IF reply.err # nil THEN [c |-> c, trace |-> t, ret |-> NilMap, err |-> reply.err]
     ELSE [c |-> c, trace |-> t, ret |-> MakeMap([k \in DOMAIN props |-> props[k]]), err |-> nil]

GetProperties(c, reply) ==
  LET t == <<Object_Call(c.object, "org.freedesktop.DBus.Properties.GetAll", <<dbusInterface>>, reply.err)>>
      props == reply.props
  IN IF reply.err # nil THEN [c |-> c, trace |-> t, ret |-> NilMap, err |-> reply.err]
     ELSE [c |-> c, trace |-> t,
           ret |-> MakeMap([k \in DOMAIN props |-> Variant_Value(props[k])]),
           err |-> nil]

\* variant: the error of the call is wrapped with context
GetProperty_wrapsError(c, propertyName, reply) ==
  LET t == <<Object_Call(c.object, "org.freedesktop.DBus.Properties.Get",
                         <<dbusInterface, propertyName>>, reply.err)>>
  IN IF reply.err # nil
       THEN [c |-> c, trace |-> t, ret |-> NilValue, err |-> Err("hostname1: " \o reply.err.msg)]
     ELSE [c |-> c, trace |-> t, ret |-> Variant_Value(reply.variant), err |-> nil]

\* variant: a failed call drops the bound object
GetProperty_dropsObject(c, propertyName, reply) ==
  LET t == <<Object_Call(c.object, "org.freedesktop.DBus.Properties.Get",
                         <<dbusInterface, propertyName>>, reply.err)>>
  IN IF reply.err # nil
       THEN [c |-> [c EXCEPT !.object = NoObject], trace |-> t, ret |-> NilValue, err |-> reply.err]
     ELSE [c |-> c, trace |-> t, ret |-> Variant_Value(reply.variant), err |-> nil]

GetProperty(c, propertyName, reply) ==
  LET t == <<Object_Call(c.object, "org.freedesktop.DBus.Properties.Get",
                         <<dbusInterface, propertyName>>, reply.err)>>
  IN IF reply.err # nil THEN [c |-> c, trace |-> t, ret |-> NilValue, err |-> reply.err]
     ELSE [c |-> c, trace |-> t, ret |-> Variant_Value(reply.variant), err |-> nil]

\* fmt.Errorf("hostname has incorrect type: %T", hn)
Errorf_incorrectType(hn) == Err("hostname has incorrect type: " \o hn.type)

\* variant: a failed Get is tried once more
GetHostname_retries(c, reply) ==
  LET r == GetProperty(c, "Hostname", reply)
  IN IF r.err # nil THEN [c |-> r.c, trace |-> r.trace \o r.trace, ret |-> "", err |-> r.err]
     ELSE IF r.ret.type # "string"
       THEN [c |-> r.c, trace |-> r.trace, ret |-> "", err |-> Errorf_incorrectType(r.ret)]
     ELSE [c |-> r.c, trace |-> r.trace, ret |-> r.ret.s, err |-> nil]

GetHostname(c, reply) ==
  LET r == GetProperty(c, "Hostname", reply)
  IN IF r.err # nil THEN [c |-> r.c, trace |-> r.trace, ret |-> "", err |-> r.err]
     ELSE IF r.ret.type # "string"
       THEN [c |-> r.c, trace |-> r.trace, ret |-> "", err |-> Errorf_incorrectType(r.ret)]
     ELSE [c |-> r.c, trace |-> r.trace, ret |-> r.ret.s, err |-> nil]

\* variant: an unchecked conversion, hns, _ := hn.(string)
GetStaticHostname_unchecked(c, reply) ==
  LET r == GetProperty(c, "StaticHostname", reply)
  IN IF r.err # nil THEN [c |-> r.c, trace |-> r.trace, ret |-> "", err |-> r.err]
     ELSE [c |-> r.c, trace |-> r.trace, ret |-> r.ret.s, err |-> nil]

GetStaticHostname(c, reply) ==
  LET r == GetProperty(c, "StaticHostname", reply)
  IN IF r.err # nil THEN [c |-> r.c, trace |-> r.trace, ret |-> "", err |-> r.err]
     ELSE IF r.ret.type # "string"
       THEN [c |-> r.c, trace |-> r.trace, ret |-> "", err |-> Errorf_incorrectType(r.ret)]
     ELSE [c |-> r.c, trace |-> r.trace, ret |-> r.ret.s, err |-> nil]

(* ----------------------------- setters -------------------------------- *)
SetHostname(c, name, askForAuth, reply) ==
  [c |-> c, trace |-> <<Object_Call(c.object, dbusInterface \o ".SetHostname", <<name, askForAuth>>, reply.err)>>,
   ret |-> reply.err, err |-> reply.err]

\* variant: the method name of the neighbouring setter
SetStaticHostname_wrongMethod(c, name, askForAuth, reply) ==
  [c |-> c, trace |-> <<Object_Call(c.object, dbusInterface \o ".SetHostname", <<name, askForAuth>>, reply.err)>>,
   ret |-> reply.err, err |-> reply.err]

SetStaticHostname(c, name, askForAuth, reply) ==
  [c |-> c, trace |-> <<Object_Call(c.object, dbusInterface \o ".SetStaticHostname", <<name, askForAuth>>, reply.err)>>,
   ret |-> reply.err, err |-> reply.err]

SetPrettyHostname(c, name, askForAuth, reply) ==
  [c |-> c, trace |-> <<Object_Call(c.object, dbusInterface \o ".SetPrettyHostname", <<name, askForAuth>>, reply.err)>>,
   ret |-> reply.err, err |-> reply.err]

SetIconName(c, name, askForAuth, reply) ==
  [c |-> c, trace |-> <<Object_Call(c.object, dbusInterface \o ".SetIconName", <<name, askForAuth>>, reply.err)>>,
   ret |-> reply.err, err |-> reply.err]

SetChassis(c, name, askForAuth, reply) ==
  [c |-> c, trace |-> <<Object_Call(c.object, dbusInterface \o ".SetChassis", <<name, askForAuth>>, reply.err)>>,
   ret |-> reply.err, err |-> reply.err]

(* ------------------------------ state --------------------------------- *)
VARIABLES
  variant,    \* which source file is compiled
  uid,        \* os.Getuid() of the process
  conns,      \* the library's private connections, by id (1..Len)
  adapters,   \* the Conn structs New handed to the caller
  opened,     \* opened[k]: the connection New opened for adapters[k]
  closeOps,   \* closeOps[k]: how many times the caller called adapters[k].Close()
  nNew,       \* how many times the caller called New
  failed,     \* failed[k]: some getter or setter call on adapters[k] returned an error
  last        \* the last call: its name, receiver, inputs and results

vars == <<variant, uid, conns, adapters, opened, closeOps, nNew, failed, last>>

NoCall == [op |-> "none", a |-> 0, name |-> "", askForAuth |-> FALSE, reply |-> nil,
           c |-> ZeroConn, trace |-> <<>>, ret |-> nil, err |-> nil]
Outcome(op, a, name, askForAuth, reply, r) ==
  [op |-> op, a |-> a, name |-> name, askForAuth |-> askForAuth, reply |-> reply,
   c |-> r.c, trace |-> r.trace, ret |-> r.ret, err |-> r.err]

Init ==
  /\ variant \in Variants
  /\ uid \in Uids
  /\ conns = <<>>
  /\ adapters = <<>>
  /\ opened = <<>>
  /\ closeOps = <<>>
  /\ nNew = 0
  /\ failed = <<>>
  /\ last = NoCall

(* -------------------------- environment ------------------------------- *)
\* a step that is not reached gets no answer (nil)
InitEnvs == {env \in [connect : {nil} \cup ConnectErrors, auth : {nil} \cup AuthErrors,
                      hello : {nil} \cup HelloErrors, close : {nil} \cup CloseErrors] :
               /\ env.connect # nil => env.auth = nil
               /\ env.auth # nil => env.hello = nil
               /\ (env.auth = nil /\ env.hello = nil) => env.close = nil}
Names == {"", "build-42"}

\* a call on a connection the caller already closed fails in the library
CallReplyErrs(c) == IF conns[c.conn].closeCalls > 0 THEN {ErrClosed} ELSE {nil} \cup CallErrors
SetterReplies(c) == [err : CallReplyErrs(c)]
GetReplies(c) == [err : CallReplyErrs(c) \ {nil}, variant : {ZeroVariant}]
                   \cup [err : StoreErrors, variant : {ZeroVariant}]
                   \cup IF nil \in CallReplyErrs(c) THEN [err : {nil}, variant : VariantsOnWire] ELSE {}
GetAllReplies(c) == [err : (CallReplyErrs(c) \ {nil}) \cup StoreErrors, props : {<<>>}]
                      \cup IF nil \in CallReplyErrs(c) THEN [err : {nil}, props : PropMaps] ELSE {}
CloseReplies(c) == [err : {nil} \cup CloseErrors]

(* ------------------------------ actions ------------------------------- *)
CallNew ==
  /\ nNew < MaxNew
  /\ \E env \in InitEnvs :
       LET r == New(Len(conns) + 1, uid, env)
       IN /\ conns' = Exec(conns, r.trace)
          /\ IF r.ret.isNil
               THEN UNCHANGED <<adapters, opened, closeOps, failed>>
               ELSE /\ adapters' = Append(adapters, [conn |-> r.ret.conn, object |-> r.ret.object])
                    /\ opened' = Append(opened, Len(conns) + 1)
                    /\ closeOps' = Append(closeOps, 0)
                    /\ failed' = Append(failed, FALSE)
          /\ last' = Outcome("New", IF r.ret.isNil THEN 0 ELSE Len(adapters) + 1, "", FALSE, env, r)
  /\ nNew' = nNew + 1
  /\ UNCHANGED <<variant, uid>>

Apply(op, a, name, askForAuth, reply, r) ==
  /\ conns' = Exec(conns, r.trace)
  /\ adapters' = [adapters EXCEPT ![a] = r.c]
  /\ last' = Outcome(op, a, name, askForAuth, reply, r)
  /\ failed' = [failed EXCEPT ![a] = @ \/ (op # "Close" /\ r.err # nil)]
  /\ UNCHANGED <<variant, uid, opened, nNew>>

CallClose ==
  /\ variant = "dbus.go"
  /\ \E a \in DOMAIN adapters :
       /\ closeOps[a] < MaxClose
       /\ closeOps' = [closeOps EXCEPT ![a] = @ + 1]
       /\ \E reply \in CloseReplies(adapters[a]) :
            Apply("Close", a, "", FALSE, reply, Close(adapters[a], reply))

CallGetProperties ==
  /\ variant = "dbus.go"
  /\ \E a \in DOMAIN adapters : \E reply \in GetAllReplies(adapters[a]) :
       Apply("GetProperties", a, "", FALSE, reply, GetProperties(adapters[a], reply))
  /\ UNCHANGED closeOps

CallGetProperty ==
  /\ variant = "dbus.go"
  /\ \E a \in DOMAIN adapters : \E p \in {"Hostname", "NoSuchProperty"} :
       \E reply \in GetReplies(adapters[a]) :
         Apply("GetProperty", a, p, FALSE, reply, GetProperty(adapters[a], p, reply))
  /\ UNCHANGED closeOps

CallGetHostname ==
  /\ variant = "dbus.go"
  /\ \E a \in DOMAIN adapters : \E reply \in GetReplies(adapters[a]) :
       Apply("GetHostname", a, "", FALSE, reply, GetHostname(adapters[a], reply))
  /\ UNCHANGED closeOps

CallGetStaticHostname ==
  /\ variant = "dbus.go"
  /\ \E a \in DOMAIN adapters : \E reply \in GetReplies(adapters[a]) :
       Apply("GetStaticHostname", a, "", FALSE, reply, GetStaticHostname(adapters[a], reply))
  /\ UNCHANGED closeOps

CallSetHostname ==
  /\ \E a \in DOMAIN adapters : \E name \in Names, askForAuth \in BOOLEAN :
       \E reply \in SetterReplies(adapters[a]) :
         Apply("SetHostname", a, name, askForAuth, reply, SetHostname(adapters[a], name, askForAuth, reply))
  /\ UNCHANGED closeOps

CallSetStaticHostname ==
  /\ \E a \in DOMAIN adapters : \E name \in Names, askForAuth \in BOOLEAN :
       \E reply \in SetterReplies(adapters[a]) :
         Apply("SetStaticHostname", a, name, askForAuth, reply, SetStaticHostname(adapters[a], name, askForAuth, reply))
  /\ UNCHANGED closeOps

CallSetPrettyHostname ==
  /\ \E a \in DOMAIN adapters : \E name \in Names, askForAuth \in BOOLEAN :
       \E reply \in SetterReplies(adapters[a]) :
         Apply("SetPrettyHostname", a, name, askForAuth, reply, SetPrettyHostname(adapters[a], name, askForAuth, reply))
  /\ UNCHANGED closeOps

CallSetIconName ==
  /\ \E a \in DOMAIN adapters : \E name \in Names, askForAuth \in BOOLEAN :
       \E reply \in SetterReplies(adapters[a]) :
         Apply("SetIconName", a, name, askForAuth, reply, SetIconName(adapters[a], name, askForAuth, reply))
  /\ UNCHANGED closeOps

CallSetChassis ==
  /\ \E a \in DOMAIN adapters : \E name \in Names, askForAuth \in BOOLEAN :
       \E reply \in SetterReplies(adapters[a]) :
         Apply("SetChassis", a, name, askForAuth, reply, SetChassis(adapters[a], name, askForAuth, reply))
  /\ UNCHANGED closeOps

Next ==
  \/ CallNew
  \/ CallClose
  \/ CallGetProperties
  \/ CallGetProperty
  \/ CallGetHostname
  \/ CallGetStaticHostname
  \/ CallSetHostname
  \/ CallSetStaticHostname
  \/ CallSetPrettyHostname
  \/ CallSetIconName
  \/ CallSetChassis

Spec == Init /\ [][Next]_vars

(* ------------------------------ claims -------------------------------- *)
Setters == {"SetHostname", "SetStaticHostname", "SetPrettyHostname", "SetIconName", "SetChassis"}
Getters == {"GetProperties", "GetProperty", "GetHostname", "GetStaticHostname"}
Wrappers == Setters \cup Getters

\* the connection a call to New opened, 0 when the connect itself failed
OpenedBy(call) == call.trace[1].conn
Referenced(i) == \E k \in DOMAIN adapters : adapters[k].conn = i

\* C1: when New fails at Auth or at Hello, the connection it opened has been
\* closed by the time New returns (Close is the last thing done on it), New
\* returns a nil adapter and a non-nil error, and no connection that is still
\* open is without an adapter that owns it.
C1_FailedNewReleasesConnection ==
  /\ (last.op = "New" /\ last.reply.connect = nil
        /\ (last.reply.auth # nil \/ last.reply.hello # nil))
       => /\ last.ret.isNil
          /\ last.err # nil
          /\ last.trace[Len(last.trace)].fn = "Close"
          /\ last.trace[Len(last.trace)].conn = OpenedBy(last)
          /\ conns[OpenedBy(last)].closeCalls >= 1
  /\ \A i \in DOMAIN conns : conns[i].closeCalls = 0 => Referenced(i)

C1_Witness ==
  /\ last.op = "New"
  /\ last.reply.connect = nil /\ last.reply.auth = nil /\ last.reply.hello # nil
  /\ conns[OpenedBy(last)].closeCalls = 1

\* C2: New returns either a non-nil adapter with a nil error or a nil adapter
\* with a non-nil error; a returned adapter has an open connection that passed
\* Auth and Hello and an object bound to org.freedesktop.hostname1 at
\* /org/freedesktop/hostname1 on that connection.
C2_NoHalfInitializedAdapter ==
  /\ last.op = "New" =>
       /\ last.ret.isNil <=> last.err # nil
       /\ ~last.ret.isNil =>
            /\ last.ret.conn \in DOMAIN conns
            /\ conns[last.ret.conn].closeCalls = 0
            /\ conns[last.ret.conn].authed
            /\ conns[last.ret.conn].hello
  /\ \A k \in DOMAIN adapters :
       /\ adapters[k].conn \in DOMAIN conns
       /\ conns[adapters[k].conn].authed
       /\ conns[adapters[k].conn].hello
       /\ adapters[k].object = [conn |-> adapters[k].conn,
                                dest |-> "org.freedesktop.hostname1",
                                path |-> "/org/freedesktop/hostname1"]

C2_Witness ==
  /\ last.op = "New"
  /\ ~last.ret.isNil
  /\ last.err = nil
  /\ adapters[last.a].object.path = "/org/freedesktop/hostname1"

\* C3 as stated: whatever the caller does, Close twice included, no connection
\* is released a second time.
C3_ReleasedAtMostOnce ==
  \A i \in DOMAIN conns : conns[i].closeCalls <= 1

\* C3 as amended: a connection whose initialization failed has been released
\* exactly once and belongs to no adapter; a connection New handed out has been
\* released once per call of Close on its adapter, neither more nor less.
C3_ReleasedOncePerClose ==
  \A i \in DOMAIN conns :
    IF \E k \in DOMAIN opened : opened[k] = i
      THEN \A k \in DOMAIN opened : opened[k] = i => conns[i].closeCalls = closeOps[k]
      ELSE conns[i].closeCalls = 1 /\ ~Referenced(i)

C3_Witness ==
  \E k \in DOMAIN opened :
    /\ closeOps[k] = 2
    /\ conns[opened[k]].closeCalls = 2
    /\ last.op = "Close"
    /\ last.a = k

\* C4: a setter M called with (name, askForAuth) calls the method
\* org.freedesktop.hostname1.M on the bound object with the two arguments
\* name and askForAuth, in that order and as given.
ExpectedMethod(op) ==
  CASE op = "SetHostname" -> "org.freedesktop.hostname1.SetHostname"
    [] op = "SetStaticHostname" -> "org.freedesktop.hostname1.SetStaticHostname"
    [] op = "SetPrettyHostname" -> "org.freedesktop.hostname1.SetPrettyHostname"
    [] op = "SetIconName" -> "org.freedesktop.hostname1.SetIconName"
    [] op = "SetChassis" -> "org.freedesktop.hostname1.SetChassis"

C4_SetterCallsItsMethod ==
  last.op \in Setters =>
    /\ BusCalls(last.trace) # <<>>
    /\ \A n \in DOMAIN BusCalls(last.trace) :
         LET call == BusCalls(last.trace)[n]
         IN /\ call.method = ExpectedMethod(last.op)
            /\ Len(call.args) = 2
            /\ call.args[1] = last.name
            /\ call.args[2] = last.askForAuth
            /\ call.object.dest = "org.freedesktop.hostname1"
            /\ call.object.path = "/org/freedesktop/hostname1"

C4_Witness ==
  /\ last.op = "SetStaticHostname"
  /\ last.name = ""
  /\ last.askForAuth
  /\ BusCalls(last.trace)[1].args = <<"", TRUE>>

\* C5: a wrapper whose remote call returned an error returns that very error,
\* and a setter whose remote call succeeded returns nil.
C5_ErrorReturnedUnchanged ==
  last.op \in Wrappers =>
    /\ last.reply.err # nil => last.err = last.reply.err
    /\ (last.op \in Setters /\ last.reply.err = nil) => last.err = nil

C5_Witness ==
  /\ last.op = "GetHostname"
  /\ last.reply.err = Err("org.freedesktop.DBus.Error.AccessDenied")
  /\ last.err = Err("org.freedesktop.DBus.Error.AccessDenied")

\* C6: GetHostname and GetStaticHostname, given a property value that is not a
\* string, return an error naming the type of the value and the empty string;
\* given a string they return it with a nil error.
ExpectedTypeError(t) ==
  CASE t = "int32" -> Err("hostname has incorrect type: int32")
    [] t = "<nil>" -> Err("hostname has incorrect type: <nil>")

C6_TypedGetterChecksType ==
  (last.op \in {"GetHostname", "GetStaticHostname"} /\ last.reply.err = nil) =>
    IF last.reply.variant.value.type = "string"
      THEN last.ret = last.reply.variant.value.s /\ last.err = nil
      ELSE /\ last.err = ExpectedTypeError(last.reply.variant.value.type)
           /\ last.err # nil
           /\ last.ret = ""

C6_Witness ==
  /\ last.op = "GetStaticHostname"
  /\ last.reply.err = nil
  /\ last.reply.variant.value.type = "int32"
  /\ last.err # nil

\* C7: GetProperties returns, when the call succeeded, a map with the keys of
\* the reply and for each key the value inside its variant, and when the call
\* failed, the error and a nil map.
C7_GetPropertiesMap ==
  last.op = "GetProperties" =>
    IF last.reply.err = nil
      THEN /\ last.err = nil
           /\ ~last.ret.isNil
           /\ DOMAIN last.ret.m = DOMAIN last.reply.props
           /\ \A k \in DOMAIN last.reply.props : last.ret.m[k] = last.reply.props[k].value
      ELSE /\ last.err = last.reply.err
           /\ last.ret.isNil
           /\ DOMAIN last.ret.m = {}

C7_Witness ==
  /\ last.op = "GetProperties"
  /\ last.reply.err = nil
  /\ DOMAIN last.ret.m = {"Hostname", "StaticHostname"}
  /\ last.ret.m["Hostname"] = Str("node-1")
  /\ last.ret.m["StaticHostname"] = Int32(7)

\* C8: every setter and getter makes exactly one call on the bus and nothing
\* else, whether the call fails or not; GetHostname and GetStaticHostname ask
\* for Hostname and StaticHostname of interface org.freedesktop.hostname1.
C8_OneBusCallPerOperation ==
  last.op \in Wrappers =>
    /\ Len(last.trace) = 1
    /\ Len(BusCalls(last.trace)) = 1
    /\ last.op = "GetHostname" =>
         /\ last.trace[1].method = "org.freedesktop.DBus.Properties.Get"
         /\ last.trace[1].args = <<"org.freedesktop.hostname1", "Hostname">>
    /\ last.op = "GetStaticHostname" =>
         /\ last.trace[1].method = "org.freedesktop.DBus.Properties.Get"
         /\ last.trace[1].args = <<"org.freedesktop.hostname1", "StaticHostname">>

C8_Witness ==
  /\ last.op = "GetHostname"
  /\ last.reply.err # nil
  /\ Len(BusCalls(last.trace)) = 1

\* C9: a getter or setter call changes neither the adapters nor the
\* connections; every call is made on the connection and the object New set
\* up; Close closes the connection New opened for that adapter.
C9_CallsLeaveAdapterUnchanged ==
  [][ /\ last'.op \in Wrappers =>
           /\ adapters' = adapters
           /\ conns' = conns
           /\ last'.trace[1].object = [conn |-> opened[last'.a],
                                       dest |-> "org.freedesktop.hostname1",
                                       path |-> "/org/freedesktop/hostname1"]
      /\ last'.op = "Close" =>
           /\ adapters' = adapters
           /\ Len(last'.trace) = 1
           /\ last'.trace[1].fn = "Close"
           /\ last'.trace[1].conn = opened[last'.a]
           /\ conns'[opened[last'.a]].closeCalls = conns[opened[last'.a]].closeCalls + 1
    ]_vars

C9_Witness ==
  /\ last.op = "Close"
  /\ failed[last.a]
  /\ closeOps[last.a] = 1
  /\ conns[opened[last.a]].closeCalls = 1

\* C10: New connects, then authenticates with the single mechanism EXTERNAL
\* and the decimal uid, then says Hello, then binds the object; each step is
\* taken only when the one before succeeded, and a failed connect is followed
\* by no Auth, Hello or Close.
DecimalUid == CASE uid = 0 -> "0" [] uid = 1000 -> "1000"

C10_ConstructionOrder ==
  last.op = "New" =>
    LET t == last.trace
        fns == [n \in DOMAIN t |-> t[n].fn]
    IN /\ fns \in {<<"SystemBusPrivate">>,
                   <<"SystemBusPrivate", "Auth", "Close">>,
                   <<"SystemBusPrivate", "Auth", "Hello", "Close">>,
                   <<"SystemBusPrivate", "Auth", "Hello">>}
       /\ (Len(t) = 1) <=> (t[1].err # nil)
       /\ Len(t) >= 2 => /\ t[2].args = <<[mechanism |-> "EXTERNAL", user |-> DecimalUid]>>
                         /\ t[2].conn = t[1].conn
       /\ (Len(t) >= 3 /\ t[3].fn = "Hello") <=> (Len(t) >= 2 /\ t[2].err = nil)
       /\ (Len(t) >= 3 /\ t[3].fn = "Hello") => t[3].conn = t[1].conn
       /\ (last.c.object # NoObject) <=> (Len(t) = 3 /\ t[3].fn = "Hello" /\ t[3].err = nil)
       /\ t[Len(t)].fn = "Close" => t[Len(t)].conn = t[1].conn

C10_Witness ==
  /\ last.op = "New"
  /\ uid = 1000
  /\ Len(last.trace) = 3
  /\ last.trace[2].fn = "Auth"
  /\ last.trace[2].err # nil
  /\ last.trace[3].fn = "Close"

====
